---- MODULE Spec2Model ----
(***************************************************************************)
(* A model of the downcast library (src/src/lib.rs).                       *)
(*                                                                         *)
(* Two parts.  The first is the impl_downcast! macro as a token rewriting  *)
(* system: one action per macro rule, the state is the current macro       *)
(* invocation and the item emitted so far (specification SpecGen).  The    *)
(* second is the run-time behaviour of the three generated methods on a    *)
(* boxed trait object, together with the borrows the method signatures     *)
(* create (specification Spec), and two such handles run side by side,     *)
(* one under the universal and one under the concrete expansion            *)
(* (specification SpecEq).                                                 *)
(*                                                                         *)
(* Tokens are strings.  A delimited group of a macro invocation is a       *)
(* record field holding the token sequence between the delimiters.         *)
(***************************************************************************)
EXTENDS Integers, Sequences, FiniteSets, TLC

VARIABLES pc, decl, toks, full, inj, item, body, h, hu, hc

vars == <<pc, decl, toks, full, inj, item, body, h, hu, hc>>
genVars == <<pc, decl, toks, full, inj, item, body>>

(***************************************************************************)
(* Bounds                                                                  *)
(***************************************************************************)
MaxParams == 2
MaxPreds == 2
MaxVal == 2
MaxViews == 2

(***************************************************************************)
(* Tokens                                                                  *)
(***************************************************************************)
TraitName == "Base"
ParamIdents == {"T", "U", "u32"}
AnyPath == "::std::any::Any"
StaticLt == "'static"
Punct == {"<", ">", ",", ":", "+", "@", "!", "{", "}", "[", "]", AnyPath, StaticLt}

IsIdent(t) == t \notin Punct

(* The transcriber repetition $( frag ) sep * : the fragments in order,    *)
(* with the separator tokens between consecutive fragments.                *)
RECURSIVE RepSep(_, _)
RepSep(frags, sep) ==
    IF frags = <<>> THEN <<>>
    ELSE IF Len(frags) = 1 THEN frags[1]
    ELSE frags[1] \o sep \o RepSep(Tail(frags), sep)

Each(s) == [i \in 1..Len(s) |-> <<s[i]>>]

(* The matcher repetition $($x:ident),* on the tokens of a group.          *)
MatchIdentList(ts) ==
    IF ts = <<>> THEN [ok |-> TRUE, items |-> <<>>]
    ELSE IF /\ Len(ts) % 2 = 1
            /\ \A i \in 1..Len(ts) :
                 IF i % 2 = 1 THEN IsIdent(ts[i]) ELSE ts[i] = ","
         THEN [ok |-> TRUE, items |-> [i \in 1..((Len(ts) + 1) \div 2) |-> ts[2 * i - 1]]]
         ELSE [ok |-> FALSE, items |-> <<>>]

(* The matcher repetition $($x:tt)* : every token is one token tree.       *)
MatchTts(ts) == ts

FirstIndex(ts, t) ==
    IF \E i \in 1..Len(ts) : ts[i] = t
    THEN CHOOSE i \in 1..Len(ts) : ts[i] = t /\ \A j \in 1..(i - 1) : ts[j] # t
    ELSE 0

Slice(ts, a, b) == IF a > b THEN <<>> ELSE SubSeq(ts, a, b)

(***************************************************************************)
(* The public rules (lib.rs 81-95).  Each matcher yields the bindings of   *)
(* its metavariables, each transcriber the @impl_full invocation.          *)
(***************************************************************************)
NoFull == [trait |-> "", param_types |-> <<>>, forall_types |-> <<>>, preds |-> <<>>]

MatchNoParams(ts) == Len(ts) = 1 /\ IsIdent(ts[1])

MatchEmptyParams(ts) == Len(ts) = 3 /\ IsIdent(ts[1]) /\ ts[2] = "<" /\ ts[3] = ">"

MatchTypeParams(ts) ==
    /\ Len(ts) >= 3 /\ IsIdent(ts[1]) /\ ts[2] = "<" /\ ts[Len(ts)] = ">"
    /\ MatchIdentList(Slice(ts, 3, Len(ts) - 1)).ok

MatchWhere(ts) ==
    /\ Len(ts) >= 5 /\ IsIdent(ts[1]) /\ ts[2] = "<"
    /\ LET k == FirstIndex(ts, ">") IN
         /\ k >= 3 /\ k + 2 <= Len(ts)
         /\ MatchIdentList(Slice(ts, 3, k - 1)).ok
         /\ ts[k + 1] = "where"

MatchConcrete(ts) ==
    /\ Len(ts) >= 4 /\ ts[1] = "concrete" /\ IsIdent(ts[2]) /\ ts[3] = "<"
    /\ ts[Len(ts)] = ">"
    /\ MatchIdentList(Slice(ts, 4, Len(ts) - 1)).ok

(* Rules are tried in the order written; the first that matches is used.   *)
PublicRule(ts) ==
    IF MatchNoParams(ts) THEN "no_params"
    ELSE IF MatchEmptyParams(ts) THEN "empty_params"
    ELSE IF MatchTypeParams(ts) THEN "type_params"
    ELSE IF MatchWhere(ts) THEN "where"
    ELSE IF MatchConcrete(ts) THEN "concrete"
    ELSE "none"

TrNoParams(ts) ==
    [trait |-> ts[1], param_types |-> <<>>, forall_types |-> <<>>, preds |-> <<>>]

TrEmptyParams_KeepsBrackets(ts) ==
    [trait |-> ts[1], param_types |-> Slice(ts, 2, 3), forall_types |-> <<>>,
     preds |-> <<>>]

TrEmptyParams(ts) ==
    [trait |-> ts[1], param_types |-> <<>>, forall_types |-> <<>>, preds |-> <<>>]

TrTypeParams(ts) ==
    LET types == MatchIdentList(Slice(ts, 3, Len(ts) - 1)).items IN
    [trait |-> ts[1],
     param_types |-> RepSep(Each(types), <<",">>),
     forall_types |-> RepSep(Each(types), <<",">>),
     preds |-> <<>>]

TrWhere(ts) ==
    LET k == FirstIndex(ts, ">")
        types == MatchIdentList(Slice(ts, 3, k - 1)).items
        preds == MatchTts(Slice(ts, k + 2, Len(ts)))
    IN [trait |-> ts[1],
        param_types |-> RepSep(Each(types), <<",">>),
        forall_types |-> RepSep(Each(types), <<",">>),
        preds |-> RepSep(Each(preds), <<>>)]

TrConcrete_DropsTypes(ts) ==
    [trait |-> ts[2], param_types |-> <<>>, forall_types |-> <<>>, preds |-> <<>>]

TrConcrete(ts) ==
    LET types == MatchIdentList(Slice(ts, 4, Len(ts) - 1)).items IN
    [trait |-> ts[2],
     param_types |-> RepSep(Each(types), <<",">>),
     forall_types |-> <<>>,
     preds |-> <<>>]

(***************************************************************************)
(* @impl_full (lib.rs 22-36): builds the impl header, hands the parameter  *)
(* list and the predicates to @inject_where, and nests the @impl_body      *)
(* invocation in the braces of the impl.                                   *)
(***************************************************************************)
NoInj == [before |-> <<>>, types |-> <<>>, preds |-> <<>>,
          after |-> [trait |-> "", types |-> <<>>]]

MatchImplFull(f) == MatchIdentList(f.forall_types).ok

ImplFullRule(f) ==
    LET forall_types == MatchIdentList(f.forall_types).items
        param_types == MatchTts(f.param_types)
    IN [before |-> <<"impl", "<">> \o RepSep(Each(forall_types), <<",">>) \o <<">">>
                     \o <<f.trait, "<">> \o RepSep(Each(param_types), <<>>) \o <<">">>,
        types |-> RepSep(Each(forall_types), <<",">>),
        preds |-> RepSep(Each(MatchTts(f.preds)), <<>>),
        after |-> [trait |-> f.trait, types |-> RepSep(Each(param_types), <<>>)]]

(***************************************************************************)
(* @inject_where (lib.rs 55-77)                                            *)
(***************************************************************************)
NoItem == [before |-> <<>>, where_ |-> <<>>, after |-> [trait |-> "", types |-> <<>>]]

ImplicitBound(t) == <<t, ":", AnyPath, "+", StaticLt>>

InjectWhereRule(a) ==
    IF a.types = <<>> /\ a.preds = <<>> THEN "none"
    ELSE IF MatchIdentList(a.types).ok /\ a.preds = <<>> THEN "types"
    ELSE IF MatchIdentList(a.types).ok /\ Len(a.preds) >= 1 THEN "preds"
    ELSE "no_rule"

InjectWhereNoneRule(a) ==
    [before |-> a.before, where_ |-> <<>>, after |-> a.after]

InjectWhereTypesRule(a) ==
    LET types == MatchIdentList(a.types).items IN
    [before |-> a.before,
     where_ |-> <<"where">>
                \o RepSep([i \in 1..Len(types) |-> ImplicitBound(types[i])], <<",">>),
     after |-> a.after]

InjectWherePredsRule_NoTrailingComma(a) ==
    LET types == MatchIdentList(a.types).items IN
    [before |-> a.before,
     where_ |-> <<"where">>
                \o RepSep([i \in 1..Len(types) |-> ImplicitBound(types[i])], <<",">>)
                \o RepSep(Each(MatchTts(a.preds)), <<>>),
     after |-> a.after]

InjectWherePredsRule(a) ==
    LET types == MatchIdentList(a.types).items IN
    [before |-> a.before,
     where_ |-> <<"where">>
                \o RepSep([i \in 1..Len(types) |-> ImplicitBound(types[i]) \o <<",">>], <<>>)
                \o RepSep(Each(MatchTts(a.preds)), <<>>),
     after |-> a.after]

(***************************************************************************)
(* @impl_body (lib.rs 38-53): the bound of the type parameter _T of each   *)
(* generated method, as the transcriber writes it.                         *)
(***************************************************************************)
NoBody == [is |-> <<>>, downcast_ref |-> <<>>, downcast_mut |-> <<>>]

MethodBound(trait, types) ==
    <<trait, "<">> \o RepSep(Each(MatchTts(types)), <<",">>) \o <<">">>

ImplBodyRule(b) ==
    [is |-> MethodBound(b.trait, b.types),
     downcast_ref |-> MethodBound(b.trait, b.types),
     downcast_mut |-> MethodBound(b.trait, b.types)]

(* A generic-argument list the compiler accepts: the arguments separated   *)
(* by single commas, an optional trailing comma.                           *)
GenericArgs(ts) ==
    IF Len(ts) >= 3 /\ IsIdent(ts[1]) /\ ts[2] = "<" /\ ts[Len(ts)] = ">"
    THEN LET inner == Slice(ts, 3, Len(ts) - 1)
             core == IF inner # <<>> /\ inner[Len(inner)] = ","
                     THEN Slice(inner, 1, Len(inner) - 1) ELSE inner
         IN IF inner # <<",">> /\ MatchIdentList(core).ok
            THEN [ok |-> TRUE, trait |-> ts[1], args |-> MatchIdentList(core).items]
            ELSE [ok |-> FALSE, trait |-> ts[1], args |-> <<>>]
    ELSE [ok |-> FALSE, trait |-> "", args |-> <<>>]

BodyParses(b) ==
    /\ GenericArgs(b.is).ok
    /\ GenericArgs(b.downcast_ref).ok
    /\ GenericArgs(b.downcast_mut).ok

(* The predicates of a where-clause: the tokens between its top-level      *)
(* commas (a trailing comma ends the last one).                            *)
RECURSIVE SplitCommas(_)
SplitCommas(ts) ==
    IF ts = <<>> THEN <<>>
    ELSE LET k == FirstIndex(ts, ",") IN
         IF k = 0 THEN <<ts>>
         ELSE <<Slice(ts, 1, k - 1)>> \o SplitCommas(Slice(ts, k + 1, Len(ts)))

(***************************************************************************)
(* Declarations handed to the macro                                        *)
(***************************************************************************)
AuthorPreds == {<<"T", ":", "Copy">>, <<"U", ":", "Clone">>}

TypeLists(lo) == UNION {[1..n -> ParamIdents] : n \in lo..MaxParams}
ParamLists(lo) ==
    {ts \in TypeLists(lo) : \A i, j \in 1..Len(ts) : ts[i] = ts[j] => i = j}
PredLists == UNION {[1..n -> AuthorPreds] : n \in 1..MaxPreds}

Decls ==
    {[form |-> "no_params", types |-> <<>>, preds |-> <<>>],
     [form |-> "empty_params", types |-> <<>>, preds |-> <<>>]}
    \cup {[form |-> "type_params", types |-> ts, preds |-> <<>>] : ts \in ParamLists(1)}
    \cup {[form |-> "where", types |-> ts, preds |-> ps] :
            ts \in ParamLists(0), ps \in PredLists}
    \cup {[form |-> "concrete", types |-> ts, preds |-> <<>>] : ts \in TypeLists(0)}

Invocation(d) ==
    LET args == <<"<">> \o RepSep(Each(d.types), <<",">>) \o <<">">> IN
    CASE d.form = "no_params" -> <<TraitName>>
      [] d.form = "empty_params" -> <<TraitName, "<", ">">>
      [] d.form = "type_params" -> <<TraitName>> \o args
      [] d.form = "where" -> <<TraitName>> \o args \o <<"where">> \o RepSep(d.preds, <<",">>)
      [] d.form = "concrete" -> <<"concrete", TraitName>> \o args

(***************************************************************************)
(* The expansion as a state machine: one action per macro rule.            *)
(***************************************************************************)
NoHandle == [alive |-> FALSE]

InitGen ==
    /\ decl \in Decls
    /\ toks = Invocation(decl)
    /\ pc = "public"
    /\ full = NoFull
    /\ inj = NoInj
    /\ item = NoItem
    /\ body = NoBody
    /\ h = NoHandle /\ hu = NoHandle /\ hc = NoHandle

RuleNoParams ==
    /\ pc = "public" /\ PublicRule(toks) = "no_params"
    /\ full' = TrNoParams(toks)
    /\ pc' = "impl_full"
    /\ UNCHANGED <<decl, toks, inj, item, body, h, hu, hc>>

RuleEmptyParams ==
    /\ pc = "public" /\ PublicRule(toks) = "empty_params"
    /\ full' = TrEmptyParams(toks)
    /\ pc' = "impl_full"
    /\ UNCHANGED <<decl, toks, inj, item, body, h, hu, hc>>

RuleTypeParams ==
    /\ pc = "public" /\ PublicRule(toks) = "type_params"
    /\ full' = TrTypeParams(toks)
    /\ pc' = "impl_full"
    /\ UNCHANGED <<decl, toks, inj, item, body, h, hu, hc>>

RuleWhere ==
    /\ pc = "public" /\ PublicRule(toks) = "where"
    /\ full' = TrWhere(toks)
    /\ pc' = "impl_full"
    /\ UNCHANGED <<decl, toks, inj, item, body, h, hu, hc>>

RuleConcrete ==
    /\ pc = "public" /\ PublicRule(toks) = "concrete"
    /\ full' = TrConcrete(toks)
    /\ pc' = "impl_full"
    /\ UNCHANGED <<decl, toks, inj, item, body, h, hu, hc>>

ImplFull ==
    /\ pc = "impl_full" /\ MatchImplFull(full)
    /\ inj' = ImplFullRule(full)
    /\ pc' = "inject_where"
    /\ UNCHANGED <<decl, toks, full, item, body, h, hu, hc>>

InjectWhereNone ==
    /\ pc = "inject_where" /\ InjectWhereRule(inj) = "none"
    /\ item' = InjectWhereNoneRule(inj)
    /\ pc' = "as_item"
    /\ UNCHANGED <<decl, toks, full, inj, body, h, hu, hc>>

InjectWhereTypes ==
    /\ pc = "inject_where" /\ InjectWhereRule(inj) = "types"
    /\ item' = InjectWhereTypesRule(inj)
    /\ pc' = "as_item"
    /\ UNCHANGED <<decl, toks, full, inj, body, h, hu, hc>>

InjectWherePreds ==
    /\ pc = "inject_where" /\ InjectWhereRule(inj) = "preds"
    /\ item' = InjectWherePredsRule(inj)
    /\ pc' = "as_item"
    /\ UNCHANGED <<decl, toks, full, inj, body, h, hu, hc>>

(* @as_item (lib.rs 79) emits the impl; the nested @impl_body invocation   *)
(* is expanded next.                                                       *)
AsItem ==
    /\ pc = "as_item"
    /\ pc' = "impl_body"
    /\ UNCHANGED <<decl, toks, full, inj, item, body, h, hu, hc>>

ImplBody ==
    /\ pc = "impl_body"
    /\ body' = ImplBodyRule(item.after)
    /\ pc' = IF BodyParses(ImplBodyRule(item.after)) THEN "done" ELSE "error"
    /\ UNCHANGED <<decl, toks, full, inj, item, h, hu, hc>>

NextGen ==
    \/ RuleNoParams \/ RuleEmptyParams \/ RuleTypeParams \/ RuleWhere \/ RuleConcrete
    \/ ImplFull
    \/ InjectWhereNone \/ InjectWhereTypes \/ InjectWherePreds
    \/ AsItem
    \/ ImplBody

SpecGen == InitGen /\ [][NextGen]_vars

(***************************************************************************)
(* The whole expansion of one invocation: the rules applied in turn.       *)
(***************************************************************************)
Expand(ts) ==
    LET r == PublicRule(ts)
        f == CASE r = "no_params" -> TrNoParams(ts)
               [] r = "empty_params" -> TrEmptyParams(ts)
               [] r = "type_params" -> TrTypeParams(ts)
               [] r = "where" -> TrWhere(ts)
               [] r = "concrete" -> TrConcrete(ts)
               [] OTHER -> NoFull
        a == ImplFullRule(f)
        w == InjectWhereRule(a)
        it == CASE w = "none" -> InjectWhereNoneRule(a)
                [] w = "types" -> InjectWhereTypesRule(a)
                [] w = "preds" -> InjectWherePredsRule(a)
                [] OTHER -> NoItem
        b == ImplBodyRule(it.after)
    IN [pc |-> IF r # "none" /\ MatchImplFull(f) /\ w # "no_rule" /\ BodyParses(b)
               THEN "done" ELSE "error",
        full |-> f, inj |-> a, item |-> it, body |-> b]

(***************************************************************************)
(* Which calls the generated impl admits.  The impl is on the trait object *)
(* named by its header (lib.rs 29); a call h.m::<X>() on a handle of type  *)
(* dyn resolves to it when the header unifies with dyn, the where-clause   *)
(* holds of the parameters so chosen, and X satisfies the bound of _T      *)
(* (lib.rs 40, 45, 50).                                                    *)
(***************************************************************************)
Range(f) == {f[i] : i \in DOMAIN f}

(* impl Base for Foo / Bar (lib.rs 111, 115); impl Base<u32> for Foo / Bar *)
(* (lib.rs 158, 162, 204, 241).                                            *)
Implementors(trait, args) ==
    IF trait = TraitName /\ args \in {<<>>, <<"u32">>} THEN {"Foo", "Bar"} ELSE {}

(* u32 is Any + 'static and Copy (lib.rs 199-204).                         *)
TraitsOf(ty) ==
    IF ty = "u32" THEN {AnyPath, StaticLt, "Copy", "Clone"} ELSE {}

Callable(impl, dyn, m, X) ==
    LET k == FirstIndex(impl.before, ">")
        forall == Range(MatchIdentList(Slice(impl.before, 3, k - 1)).items)
        self == GenericArgs(Slice(impl.before, k + 1, Len(impl.before)))
        bound == GenericArgs(impl.body[m])
        unifies ==
            /\ self.ok /\ self.trait = dyn.trait /\ Len(self.args) = Len(dyn.args)
            /\ \A i \in 1..Len(self.args) :
                 IF self.args[i] \in forall
                 THEN \A j \in 1..Len(self.args) :
                        self.args[j] = self.args[i] => dyn.args[j] = dyn.args[i]
                 ELSE self.args[i] = dyn.args[i]
        Subst(t) ==
            IF t \in forall /\ \E i \in 1..Len(self.args) : self.args[i] = t
            THEN dyn.args[CHOOSE i \in 1..Len(self.args) : self.args[i] = t]
            ELSE t
        preds == IF impl.where_ = <<>> THEN <<>> ELSE SplitCommas(Tail(impl.where_))
        whereOk ==
            \A n \in 1..Len(preds) :
              /\ Len(preds[n]) >= 3 /\ preds[n][2] = ":"
              /\ \A q \in 3..Len(preds[n]) :
                   preds[n][q] = "+" \/ preds[n][q] \in TraitsOf(Subst(preds[n][1]))
    IN /\ impl.ok /\ k >= 3
       /\ unifies /\ whereOk
       /\ bound.ok
       /\ X \in Implementors(bound.trait, [i \in 1..Len(bound.args) |-> Subst(bound.args[i])])

(***************************************************************************)
(* Run time.  A handle is a Box<dyn Base<..>>: the box owns one cell of    *)
(* storage holding a value of a concrete type; views are the references    *)
(* the methods hand out.                                                   *)
(***************************************************************************)
Types == {"Foo", "Bar"}
Vals == 0..MaxVal
Addrs == {"box", "tmp"}
Slots == 1..MaxViews
SelfRef == [addr |-> "box", static |-> "dyn"]
NoView == [kind |-> "none", addr |-> "box", ty |-> ""]
NoCell == [ty |-> "", val |-> 0]
ReadOps == {"is", "downcast_ref"}
NoMemo == [res |-> "unset", seen |-> -1]

NewBox(impl, dyn, ty, v) ==
    [alive |-> TRUE,
     impl |-> impl,
     dyn |-> dyn,
     store |-> [a \in Addrs |-> IF a = "box" THEN [ty |-> ty, val |-> v] ELSE NoCell],
     views |-> [i \in Slots |-> NoView],
     ret |-> [op |-> "new", arg |-> ty, res |-> "", seen |-> -1, slot |-> 0,
              pre |-> [a \in Addrs |-> NoCell]],
     memo |-> [c \in ReadOps \X Types |-> NoMemo],
     orig |-> v,
     last |-> v]

(* Downcast::as_any on a trait object dispatches to the impl of the value  *)
(* behind it (lib.rs 9-12): the &dyn Any refers to that value.             *)
as_any_OfHandle(store, self) == [addr |-> self.addr, type_id |-> self.static]

as_any(store, self) == [addr |-> self.addr, type_id |-> store[self.addr].ty]

as_any_mut_Detached(store, self) == [addr |-> "tmp", type_id |-> store[self.addr].ty]

as_any_mut(store, self) == [addr |-> self.addr, type_id |-> store[self.addr].ty]

(* <dyn Any>::is and ::downcast_ref / ::downcast_mut of the standard       *)
(* library, which the generated methods forward to (lib.rs 41, 46, 51).    *)
Any_is(r, T) == r.type_id = T

Any_downcast_Unchecked(r, T) == [some |-> TRUE, addr |-> r.addr]

Any_downcast(r, T) ==
    IF Any_is(r, T) THEN [some |-> TRUE, addr |-> r.addr]
    ELSE [some |-> FALSE, addr |-> r.addr]

(* The borrows the receivers take: &self needs no live mutable view,       *)
(* &mut self (and moving or dropping the box) no live view at all.         *)
SharedOk(hh) == hh.alive /\ \A i \in Slots : hh.views[i].kind # "mut"

UniqueOk_AsShared(hh) == hh.alive /\ \A i \in Slots : hh.views[i].kind # "mut"

UniqueOk(hh) == hh.alive /\ \A i \in Slots : hh.views[i].kind = "none"

FreeSlot(hh) ==
    IF \E i \in Slots : hh.views[i].kind = "none"
    THEN CHOOSE i \in Slots :
           hh.views[i].kind = "none" /\ \A j \in 1..(i - 1) : hh.views[j].kind # "none"
    ELSE 0

Remember(hh, op, X, res, seen) ==
    [hh.memo EXCEPT ![<<op, X>>] =
        IF @.res = "unset" THEN [res |-> res, seen |-> seen] ELSE @]

NoMethod(hh, op, X) ==
    [hh EXCEPT !.ret = [op |-> op, arg |-> X, res |-> "no_method", seen |-> -1,
                        slot |-> 0, pre |-> hh.store]]

(* pub fn is<_T>(&self) -> bool (lib.rs 40-42)                             *)
DoIs(hh, X) ==
    IF ~Callable(hh.impl, hh.dyn, "is", X) THEN NoMethod(hh, "is", X)
    ELSE LET res == IF Any_is(as_any(hh.store, SelfRef), X) THEN "true" ELSE "false" IN
         [hh EXCEPT !.ret = [op |-> "is", arg |-> X, res |-> res, seen |-> -1,
                             slot |-> 0, pre |-> hh.store],
                    !.memo = Remember(hh, "is", X, res, -1)]

(* pub fn downcast_ref<_T>(&self) -> Option<&_T> (lib.rs 45-47)            *)
RefResult(hh, X) == Any_downcast(as_any(hh.store, SelfRef), X)

DoDowncastRef_Takes(hh, X) ==
    LET d == RefResult(hh, X)
        s == FreeSlot(hh)
        seen == hh.store[d.addr].val
    IN IF d.some
       THEN [hh EXCEPT !.views[s] = [kind |-> "ref", addr |-> d.addr, ty |-> X],
                       !.store[d.addr].val = 0,
                       !.ret = [op |-> "downcast_ref", arg |-> X, res |-> "Some",
                                seen |-> seen, slot |-> s, pre |-> hh.store],
                       !.memo = Remember(hh, "downcast_ref", X, "Some", seen)]
       ELSE [hh EXCEPT !.ret = [op |-> "downcast_ref", arg |-> X, res |-> "None",
                                seen |-> -1, slot |-> 0, pre |-> hh.store],
                       !.memo = Remember(hh, "downcast_ref", X, "None", -1)]

DoDowncastRef(hh, X) ==
    IF ~Callable(hh.impl, hh.dyn, "downcast_ref", X) THEN NoMethod(hh, "downcast_ref", X)
    ELSE LET d == RefResult(hh, X)
             s == FreeSlot(hh)
             seen == hh.store[d.addr].val
         IN IF d.some
            THEN [hh EXCEPT !.views[s] = [kind |-> "ref", addr |-> d.addr, ty |-> X],
                            !.ret = [op |-> "downcast_ref", arg |-> X, res |-> "Some",
                                     seen |-> seen, slot |-> s, pre |-> hh.store],
                            !.memo = Remember(hh, "downcast_ref", X, "Some", seen)]
            ELSE [hh EXCEPT !.ret = [op |-> "downcast_ref", arg |-> X, res |-> "None",
                                     seen |-> -1, slot |-> 0, pre |-> hh.store],
                            !.memo = Remember(hh, "downcast_ref", X, "None", -1)]

(* pub fn downcast_mut<_T>(&mut self) -> Option<&mut _T> (lib.rs 50-52)    *)
MutResult(hh, X) == Any_downcast(as_any_mut(hh.store, SelfRef), X)

DoDowncastMut(hh, X) ==
    IF ~Callable(hh.impl, hh.dyn, "downcast_mut", X) THEN NoMethod(hh, "downcast_mut", X)
    ELSE LET d == MutResult(hh, X)
             s == FreeSlot(hh)
         IN IF d.some
            THEN [hh EXCEPT !.views[s] = [kind |-> "mut", addr |-> d.addr, ty |-> X],
                            !.ret = [op |-> "downcast_mut", arg |-> X, res |-> "Some",
                                     seen |-> hh.store[d.addr].val, slot |-> s,
                                     pre |-> hh.store]]
            ELSE [hh EXCEPT !.ret = [op |-> "downcast_mut", arg |-> X, res |-> "None",
                                     seen |-> -1, slot |-> 0, pre |-> hh.store]]

(* bar.0 = val through the mutable view (lib.rs 127, 174)                  *)
DoWrite(hh, i, v) ==
    [hh EXCEPT !.store[hh.views[i].addr].val = v,
               !.last = v,
               !.ret = [op |-> "write", arg |-> hh.views[i].ty, res |-> "", seen |-> v,
                        slot |-> i, pre |-> hh.store],
               !.memo = [c \in ReadOps \X Types |-> NoMemo]]

(* the view goes out of scope (lib.rs 123, 128)                            *)
DoRelease(hh, i) == [hh EXCEPT !.views[i] = NoView]

(* the box goes out of scope (lib.rs 147)                                  *)
DoDrop(hh) == [hh EXCEPT !.alive = FALSE]

CanRef(hh, X) == SharedOk(hh) /\ (RefResult(hh, X).some => FreeSlot(hh) # 0)
CanMut(hh, X) == UniqueOk(hh) /\ (MutResult(hh, X).some => FreeSlot(hh) # 0)

(***************************************************************************)
(* One handle, under the impl one of the four test modules generates.      *)
(***************************************************************************)
TestModules ==
    {[decl |-> [form |-> "no_params", types |-> <<>>, preds |-> <<>>],
      dyn |-> [trait |-> TraitName, args |-> <<>>]],
     [decl |-> [form |-> "type_params", types |-> <<"T">>, preds |-> <<>>],
      dyn |-> [trait |-> TraitName, args |-> <<"u32">>]],
     [decl |-> [form |-> "where", types |-> <<"T">>, preds |-> << <<"T", ":", "Copy">> >>],
      dyn |-> [trait |-> TraitName, args |-> <<"u32">>]],
     [decl |-> [form |-> "concrete", types |-> <<"u32">>, preds |-> <<>>],
      dyn |-> [trait |-> TraitName, args |-> <<"u32">>]]}

(* The impl block the expansion leaves behind.                              *)
ImplOf(e) ==
    [ok |-> e.pc = "done", before |-> e.item.before, where_ |-> e.item.where_,
     body |-> e.body]

Init ==
    /\ \E m \in TestModules :
         LET e == Expand(Invocation(m.decl)) IN
         /\ decl = m.decl
         /\ toks = Invocation(m.decl)
         /\ pc = e.pc /\ full = e.full /\ inj = e.inj /\ item = e.item /\ body = e.body
         /\ \E ty \in Types, v \in Vals : h = NewBox(ImplOf(e), m.dyn, ty, v)
    /\ hu = NoHandle /\ hc = NoHandle

Is(X) ==
    /\ SharedOk(h)
    /\ h' = DoIs(h, X)
    /\ UNCHANGED <<genVars, hu, hc>>

DowncastRef(X) ==
    /\ CanRef(h, X)
    /\ h' = DoDowncastRef(h, X)
    /\ UNCHANGED <<genVars, hu, hc>>

DowncastMut(X) ==
    /\ CanMut(h, X)
    /\ h' = DoDowncastMut(h, X)
    /\ UNCHANGED <<genVars, hu, hc>>

Write(i, v) ==
    /\ h.alive /\ h.views[i].kind = "mut"
    /\ h' = DoWrite(h, i, v)
    /\ UNCHANGED <<genVars, hu, hc>>

Release(i) ==
    /\ h.alive /\ h.views[i].kind # "none"
    /\ h' = DoRelease(h, i)
    /\ UNCHANGED <<genVars, hu, hc>>

Drop ==
    /\ UniqueOk(h)
    /\ h' = DoDrop(h)
    /\ UNCHANGED <<genVars, hu, hc>>

Next ==
    \/ \E X \in Types : Is(X)
    \/ \E X \in Types : DowncastRef(X)
    \/ \E X \in Types : DowncastMut(X)
    \/ \E i \in Slots, v \in Vals : Write(i, v)
    \/ \E i \in Slots : Release(i)
    \/ Drop

Spec == Init /\ [][Next]_vars

(***************************************************************************)
(* Two handles of type Box<dyn Base<u32>> holding the same value, one      *)
(* under impl_downcast!(Base<T>) (lib.rs 154), one under                   *)
(* impl_downcast!(concrete Base<u32>) (lib.rs 236), given the same calls.  *)
(***************************************************************************)
UniversalDecl == [form |-> "type_params", types |-> <<"T">>, preds |-> <<>>]
ConcreteDecl == [form |-> "concrete", types |-> <<"u32">>, preds |-> <<>>]
DynU32 == [trait |-> TraitName, args |-> <<"u32">>]

InitEq ==
    /\ LET e == Expand(Invocation(UniversalDecl)) IN
         /\ decl = UniversalDecl
         /\ toks = Invocation(UniversalDecl)
         /\ pc = e.pc /\ full = e.full /\ inj = e.inj /\ item = e.item /\ body = e.body
    /\ h = NoHandle
    /\ \E ty \in Types, v \in Vals :
         /\ hu = NewBox(ImplOf(Expand(Invocation(UniversalDecl))), DynU32, ty, v)
         /\ hc = NewBox(ImplOf(Expand(Invocation(ConcreteDecl))), DynU32, ty, v)

EqIs(X) ==
    /\ SharedOk(hu) /\ SharedOk(hc)
    /\ hu' = DoIs(hu, X)
    /\ hc' = DoIs(hc, X)
    /\ UNCHANGED <<genVars, h>>

EqDowncastRef(X) ==
    /\ CanRef(hu, X) /\ CanRef(hc, X)
    /\ hu' = DoDowncastRef(hu, X)
    /\ hc' = DoDowncastRef(hc, X)
    /\ UNCHANGED <<genVars, h>>

EqDowncastMut(X) ==
    /\ CanMut(hu, X) /\ CanMut(hc, X)
    /\ hu' = DoDowncastMut(hu, X)
    /\ hc' = DoDowncastMut(hc, X)
    /\ UNCHANGED <<genVars, h>>

EqWrite(i, v) ==
    /\ hu.alive /\ hu.views[i].kind = "mut"
    /\ hc.alive /\ hc.views[i].kind = "mut"
    /\ hu' = DoWrite(hu, i, v)
    /\ hc' = DoWrite(hc, i, v)
    /\ UNCHANGED <<genVars, h>>

EqRelease(i) ==
    /\ hu.alive /\ hu.views[i].kind # "none"
    /\ hc.alive /\ hc.views[i].kind # "none"
    /\ hu' = DoRelease(hu, i)
    /\ hc' = DoRelease(hc, i)
    /\ UNCHANGED <<genVars, h>>

EqDrop ==
    /\ UniqueOk(hu) /\ UniqueOk(hc)
    /\ hu' = DoDrop(hu)
    /\ hc' = DoDrop(hc)
    /\ UNCHANGED <<genVars, h>>

NextEq ==
    \/ \E X \in Types : EqIs(X)
    \/ \E X \in Types : EqDowncastRef(X)
    \/ \E X \in Types : EqDowncastMut(X)
    \/ \E i \in Slots, v \in Vals : EqWrite(i, v)
    \/ \E i \in Slots : EqRelease(i)
    \/ EqDrop

SpecEq == InitEq /\ [][NextEq]_vars

(***************************************************************************)
(* Properties of the expansion                                             *)
(***************************************************************************)
Expanded == pc \in {"done", "error"}

CommaList(types) == RepSep(Each(types), <<",">>)

(* C6: for impl_downcast!(I<P1, ..., Pn>), n >= 1, the impl is generic     *)
(* over exactly P1..Pn on I<P1, ..., Pn>, and each of is, downcast_ref and *)
(* downcast_mut bounds its type parameter by I<P1, ..., Pn>, the same      *)
(* ordered list with no token dropped, duplicated or added.                *)
C6_UniversalAnyCount ==
    (Expanded /\ decl.form = "type_params") =>
        /\ pc = "done"
        /\ item.before = <<"impl", "<">> \o CommaList(decl.types) \o <<">">>
                         \o <<TraitName, "<">> \o CommaList(decl.types) \o <<">">>
        /\ \A m \in {"is", "downcast_ref", "downcast_mut"} :
             body[m] = <<TraitName, "<">> \o CommaList(decl.types) \o <<">">>

(* C7: for every universal declaration the where-clause of the generated   *)
(* impl is the keyword where, then for each Pi in order exactly one bound  *)
(* Pi: Any + 'static, then every author predicate unchanged and in the     *)
(* author's order, each predicate separated from the next by one comma.    *)
C7_WhereClause ==
    (pc \in {"as_item", "impl_body", "done", "error"}
       /\ decl.form \in {"type_params", "where"}
       /\ Len(decl.types) >= 1) =>
        /\ Len(item.where_) >= 1 /\ item.where_[1] = "where"
        /\ SplitCommas(Tail(item.where_))
             = [i \in 1..Len(decl.types) |-> ImplicitBound(decl.types[i])] \o decl.preds

C7_Witness ==
    /\ pc = "impl_body" /\ decl.form = "where"
    /\ Len(decl.types) = 2 /\ Len(decl.preds) = 2 /\ decl.preds[1] # decl.preds[2]

(* C8: for impl_downcast!(concrete I<T1, ..., Tn>) the impl has an empty   *)
(* parameter list, is on I<T1, ..., Tn>, bounds the type parameter of each *)
(* method by I<T1, ..., Tn>, and has no where-clause.                      *)
C8_ConcreteForm ==
    (Expanded /\ decl.form = "concrete") =>
        /\ pc = "done"
        /\ item.before = <<"impl", "<", ">", TraitName, "<">>
                         \o CommaList(decl.types) \o <<">">>
        /\ item.where_ = <<>>
        /\ \A m \in {"is", "downcast_ref", "downcast_mut"} :
             body[m] = <<TraitName, "<">> \o CommaList(decl.types) \o <<">">>

(* C9: impl_downcast!(I) and impl_downcast!(I<>) both expand to the impl   *)
(* on I<> with no parameters and no where-clause, whose three methods      *)
(* bound their type parameter by I<>.                                      *)
C9_EmptyListEquivalence ==
    (Expanded /\ decl.form \in {"no_params", "empty_params"}) =>
        /\ pc = "done"
        /\ item.before = <<"impl", "<", ">", TraitName, "<", ">">>
        /\ item.where_ = <<>>
        /\ \A m \in {"is", "downcast_ref", "downcast_mut"} :
             body[m] = <<TraitName, "<", ">">>

C9_Witness == pc = "done" /\ decl.form = "empty_params"

(***************************************************************************)
(* Properties of the generated methods                                     *)
(***************************************************************************)
Stored == h.store["box"]

(* C1: is::<X>() returns true if and only if the concrete type of the      *)
(* value stored behind the handle is X (the type of the value, not of the  *)
(* handle): true for the type held, false for every other implementer.     *)
C1_Exactness ==
    h.ret.op = "is" =>
        /\ h.ret.res \in {"true", "false"}
        /\ (h.ret.res = "true") <=> (Stored.ty = h.ret.arg)

C1_Witness ==
    /\ h.ret.op = "is" /\ h.ret.res = "false" /\ h.ret.arg # Stored.ty
    /\ h.memo[<<"is", Stored.ty>>].res = "true"

(* C2: on a handle holding an A, downcast_ref::<B>() and                   *)
(* downcast_mut::<B>() with B different from A return None, create no      *)
(* view, and leave the stored value as it was before the call.             *)
C2_NegativeSafety ==
    (h.ret.op \in {"downcast_ref", "downcast_mut"} /\ h.ret.arg # Stored.ty) =>
        /\ h.ret.res = "None"
        /\ h.ret.slot = 0
        /\ h.store = h.ret.pre

C2_Witness ==
    /\ h.ret.op = "downcast_mut" /\ h.ret.arg # Stored.ty /\ h.ret.res = "None"
    /\ h.last # h.orig

(* C3: on a handle holding an A, downcast_ref::<A>() returns a view whose  *)
(* field equals the stored field at the call, which is the value of the    *)
(* last write made through a downcast_mut::<A>() view (the initial value   *)
(* when none was made).                                                    *)
C3_ViewFidelity ==
    (h.ret.op = "downcast_ref" /\ h.ret.arg = Stored.ty) =>
        /\ h.ret.res = "Some"
        /\ h.ret.slot \in Slots
        /\ h.ret.seen = h.ret.pre["box"].val
        /\ h.ret.seen = h.last

C3_Witness ==
    /\ h.ret.op = "downcast_ref" /\ h.ret.res = "Some"
    /\ h.last # h.orig /\ h.ret.seen = h.last

(* C4: a call of is::<A>() or downcast_ref::<A>() changes neither the      *)
(* stored value nor its type, and returns what the first such call since   *)
(* the last mutation returned.                                             *)
C4_Idempotence ==
    [][(h'.ret # h.ret /\ h'.ret.op \in ReadOps) =>
         /\ h'.store = h.store
         /\ h'.alive = h.alive
         /\ LET m == h.memo[<<h'.ret.op, h'.ret.arg>>] IN
              m.res # "unset" => (h'.ret.res = m.res /\ h'.ret.seen = m.seen)]_vars

C4_Witness ==
    /\ h.ret.op = "downcast_ref" /\ h.ret.res = "Some" /\ h.ret.slot = 2
    /\ h.views[1].kind = "ref" /\ h.views[2].kind = "ref"
    /\ h.memo[<<"is", h.ret.arg>>].res = "true"

(* C10: at every instant at most one mutable view is live, no constant     *)
(* view is live while a mutable one is, and no view is live once the       *)
(* handle is gone.                                                         *)
C10_ViewExclusivity ==
    /\ Cardinality({i \in Slots : h.views[i].kind = "mut"}) <= 1
    /\ \A i, j \in Slots :
         (h.views[i].kind = "mut" /\ i # j) => h.views[j].kind = "none"
    /\ ~h.alive => \A i \in Slots : h.views[i].kind = "none"

C10_Witness ==
    /\ \E i \in Slots : h.views[i].kind = "mut"
    /\ h.last # h.orig

Observable(hh) ==
    [alive |-> hh.alive, store |-> hh.store, views |-> hh.views, ret |-> hh.ret,
     last |-> hh.last]

(* C5: run side by side on the same calls and writes, the methods that     *)
(* impl_downcast!(Base<T>) generates, used at T = u32, and those that      *)
(* impl_downcast!(concrete Base<u32>) generates return the same results    *)
(* and leave the same stored value and views at every step.                *)
C5_ShapeEquivalence == Observable(hu) = Observable(hc)

C5_Witness ==
    /\ hu.ret.op = "downcast_ref" /\ hu.ret.res = "Some"
    /\ hc.ret.op = "downcast_ref" /\ hc.ret.res = "Some"
    /\ hu.last # hu.orig
    /\ hu.memo[<<"is", hu.ret.arg>>].res = "true"

====
